---------------------------- MODULE Spec2Model ----------------------------
(***************************************************************************)
(* Verification model of the steam-charts comparison page                  *)
(* (src/unnamed/part_000): the bucketing engine aggregateData, the         *)
(* interval policy getAggregationInterval, the series merger               *)
(* processChartData and the React component state SteamCompareApp.         *)
(*                                                                         *)
(* Time.  The code counts time in milliseconds; TLC's integers are 32 bits  *)
(* wide and 90 days of milliseconds do not fit.  In getAggregationInterval, *)
(* processChartData and the component state one unit of model time is      *)
(* 1000 ms (one second): DAY is 24*60*60 units.  Every constant the code    *)
(* compares a range against is a multiple of 1000 ms, so a model width w    *)
(* stands for the widths of (1000*(w-1), 1000*w] ms and decides each        *)
(* comparison as they do.                                                  *)
(*                                                                         *)
(* Numbers.  JavaScript numbers are IEEE doubles; every quantity below is  *)
(* an integer far below 2^53, so sums and products are exact in the code.  *)
(* Divisions (mean, variance), Math.sqrt and Math.round are modelled by    *)
(* exact integer arithmetic on cross-multiplied quantities; the derivation *)
(* is given at each definition.                                            *)
(***************************************************************************)
EXTENDS Integers, Sequences, FiniteSets, TLC

VARIABLES
    \* --- one call of aggregateData(data, intervalMs) ---
    aggData,        \* argument data: HistoricalPoint[]
    aggInterval,    \* argument intervalMs
    aggResult,      \* returned HistoricalPoint[]
    aggPc,          \* "call" before the call, "done" after it returned
    \* --- one call of getAggregationInterval(startDate, endDate) ---
    ivStart,        \* argument startDate
    ivEnd,          \* argument endDate
    ivResult,       \* returned interval
    ivPc,           \* "call" / "done"
    \* --- one evaluation of processChartData() ---
    mGames,         \* selectedGames as processChartData reads it
    mStart,         \* startDate
    mEnd,           \* endDate
    mAggregated,    \* the local aggregatedGames
    mRows,          \* returned rows (chartData)
    mPc,            \* "call" / "done"
    \* --- the state of the component SteamCompareApp (useState) ---
    query,          \* text of the search box
    searchResults,  \* Game[]: ids of the games listed in the dropdown
    selectedGames,  \* SelectedGame[]
    loading,        \* the busy flag
    error,          \* the message shown: a sequence of fragments, <<>> for ''
    usedColors,     \* Set<string>
    startDate,      \* number | null
    endDate,        \* number | null
    refAreaLeft,    \* drag-to-zoom: first label, NoLabel for ''
    refAreaRight,   \* drag-to-zoom: second label, NoLabel for ''
    isSelecting,    \* drag-to-zoom in progress
    \* --- the asynchronous calls suspended at their await fetch(...) ---
    inFlight        \* sequence of suspended handleSearch / addGame calls

aggVars == <<aggData, aggInterval, aggResult, aggPc>>

ivVars == <<ivStart, ivEnd, ivResult, ivPc>>

mVars == <<mGames, mStart, mEnd, mAggregated, mRows, mPc>>

appVars == <<query, searchResults, selectedGames, loading, error, usedColors,
             startDate, endDate, refAreaLeft, refAreaRight, isSelecting, inFlight>>

\* the state of the calls of the pure functions, which the component's
\* handlers leave alone
pureVars == <<aggVars, ivVars, mVars>>

vars == <<aggVars, ivVars, mVars, appVars>>

-----------------------------------------------------------------------------
(* Bounds of the model *)

\* longest point sequence handed to aggregateData
MaxLen == 4
\* dates of the aggregateData inputs are 0..MaxDate
MaxDate == 2
\* player counts of the inputs
Counts == {1, 100, 500}
\* bucket widths handed to aggregateData
Intervals == {2, 3}

\* getAggregationInterval is called with startDate = 0..MaxStartDay days
MaxStartDay == 2
\* ... and with range widths within MaxDelta units of each tier boundary
MaxDelta == 2

\* the series handed to processChartData have their points at the half
\* hours 0..MaxTick
MaxTick == 3

\* at most MaxInFlight calls are suspended at a fetch at any time
MaxInFlight == 2
\* the user stops adding games once MaxSelected are selected or being fetched
MaxSelected == 2

\* type HistoricalPoint = { date: number; count: number }
HistoricalPoint(D, C) == [date : D, count : C]

\* all sequences over S of length 0..n
SeqsUpTo(S, n) == UNION {[1..k -> S] : k \in 0..n}

-----------------------------------------------------------------------------
(* aggregateData *)

RECURSIVE SumCounts(_)
\* points.reduce((sum, p) => sum + p.count, 0)
SumCounts(points) ==
    IF points = <<>> THEN 0
    ELSE points[1].count + SumCounts(Tail(points))

\* a bucket keyed by its end instead of its start
BucketKeyAtEnd(date, intervalMs) == (date \div intervalMs) * intervalMs + intervalMs

\* Math.floor(point.date / intervalMs) * intervalMs
BucketKey(date, intervalMs) == (date \div intervalMs) * intervalMs

RECURSIVE BucketKeys(_, _, _)
\* keys of the Map `buckets` in insertion order: a key is inserted when the
\* first point of its bucket is met (buckets.has / buckets.set)
BucketKeys(data, intervalMs, seen) ==
    IF data = <<>> THEN <<>>
    ELSE LET k == BucketKey(data[1].date, intervalMs)
         IN  IF k \in seen
             THEN BucketKeys(Tail(data), intervalMs, seen)
             ELSE <<k>> \o BucketKeys(Tail(data), intervalMs, seen \cup {k})

\* buckets.get(bucketKey): the points pushed to that bucket, in input order
BucketPoints(data, intervalMs, bucketKey) ==
    SelectSeq(data, LAMBDA p : BucketKey(p.date, intervalMs) = bucketKey)

RECURSIVE SumSqDev(_, _, _)
\* Q = sum over the bucket of (N*count - S)^2, where S is the bucket's sum
\* and N its size; variance = Q / N^3 (mean = S/N)
SumSqDev(points, S, N) ==
    IF points = <<>> THEN 0
    ELSE (N * points[1].count - S) * (N * points[1].count - S)
         + SumSqDev(Tail(points), S, N)

\* a symmetric detector: a dip below the mean is split out like a spike
IsOutlierEitherSide(count, S, N, Q) ==
    LET d == N * count - S
    IN  /\ d # 0
        /\ 4 * N * d * d > 9 * Q
        /\ (IF d > 0 THEN 2 * d ELSE -2 * d) > S

\* point.count > mean && (point.count - mean) > threshold, where
\*   mean = S/N, stdDev = sqrt(Q/N^3), threshold = max(stdDev*1.5, mean*0.5).
\* With d = N*count - S (so count - mean = d/N):
\*   count > mean              <=>  d > 0
\*   count - mean > 1.5*stdDev <=>  d^2/N^2 > 2.25*Q/N^3  <=>  4*N*d^2 > 9*Q
\*                                  (both sides non-negative, d > 0)
\*   count - mean > 0.5*mean   <=>  d/N > S/(2N)          <=>  2*d > S
\* and x > max(a, b) <=> x > a /\ x > b.
IsUpwardOutlier(count, S, N, Q) ==
    LET d == N * count - S
    IN  /\ d > 0
        /\ 4 * N * d * d > 9 * Q
        /\ 2 * d > S

\* truncation instead of rounding
FloorDiv(sum, n) == sum \div n

\* Math.round(sum / n): the nearest integer, halves rounded up
RoundDiv(sum, n) == (2 * sum + n) \div (2 * n)

RECURSIVE Insert(_, _)
\* insertion of x after every element whose count is <= x (ascending)
Insert(x, sorted) ==
    IF sorted = <<>> THEN <<x>>
    ELSE IF x < sorted[1] THEN <<x>> \o sorted
    ELSE <<sorted[1]>> \o Insert(x, Tail(sorted))

RECURSIVE SortedCounts(_)
\* points.map(p => p.count).sort((a, b) => a - b)
SortedCounts(points) ==
    IF points = <<>> THEN <<>>
    ELSE Insert(points[1].count, SortedCounts(Tail(points)))

\* sortedCounts[Math.floor(sortedCounts.length / 2)]  (0-based index)
Median(points) == SortedCounts(points)[(Len(points) \div 2) + 1]

\* the body of buckets.forEach: the points one bucket pushes to `result`
ProcessBucket(points, bucketDate) ==
    IF Len(points) = 1
    THEN <<[date |-> bucketDate, count |-> points[1].count]>>
    ELSE LET N == Len(points)
             S == SumCounts(points)
             Q == SumSqDev(points, S, N)
             upwardOutliers ==
                 SelectSeq(points, LAMBDA p : IsUpwardOutlier(p.count, S, N, Q))
             normalPoints ==
                 SelectSeq(points, LAMBDA p : ~IsUpwardOutlier(p.count, S, N, Q))
             representative ==
                 IF Len(normalPoints) > 0
                 THEN [date  |-> bucketDate,
                       count |-> RoundDiv(SumCounts(normalPoints), Len(normalPoints))]
                 ELSE [date |-> bucketDate, count |-> Median(points)]
         IN  <<representative>> \o upwardOutliers

RECURSIVE EmitBuckets(_, _, _)
\* buckets.forEach(...) over the Map in insertion order
EmitBuckets(keys, data, intervalMs) ==
    IF keys = <<>> THEN <<>>
    ELSE ProcessBucket(BucketPoints(data, intervalMs, keys[1]), keys[1])
         \o EmitBuckets(Tail(keys), data, intervalMs)

RECURSIVE InsertByDate(_, _)
\* stable insertion: x goes before the first element with a larger date
InsertByDate(x, sorted) ==
    IF sorted = <<>> THEN <<x>>
    ELSE IF x.date < sorted[1].date THEN <<x>> \o sorted
    ELSE <<sorted[1]>> \o InsertByDate(x, Tail(sorted))

RECURSIVE SortByDate(_)
\* result.sort((a, b) => a.date - b.date): Array.prototype.sort is stable
SortByDate(points) ==
    IF points = <<>> THEN <<>>
    ELSE InsertByDate(points[Len(points)], SortByDate(SubSeq(points, 1, Len(points) - 1)))

\* the emitted points returned as pushed, without the final sort
aggregateDataUnsorted(data, intervalMs) ==
    IF Len(data) = 0 THEN <<>>
    ELSE EmitBuckets(BucketKeys(data, intervalMs, {}), data, intervalMs)

\* const aggregateData = (data, intervalMs) => ...
aggregateData(data, intervalMs) ==
    IF Len(data) = 0 THEN <<>>
    ELSE SortByDate(EmitBuckets(BucketKeys(data, intervalMs, {}), data, intervalMs))

-----------------------------------------------------------------------------
(* getAggregationInterval *)

\* 60 * 60 * 1000 ms
HOUR == 60 * 60
\* const DAY = 24 * 60 * 60 * 1000
DAY == 24 * 60 * 60
\* const WEEK = 7 * DAY
WEEK == 7 * DAY
\* const MONTH = 30 * DAY
MONTH == 30 * DAY

\* the first tier closed with < instead of <=
getAggregationIntervalStrict(fromDate, toDate) ==
    LET rangeMs == toDate - fromDate
    IN  IF rangeMs < 7 * DAY THEN HOUR
        ELSE IF rangeMs <= 3 * MONTH THEN DAY
        ELSE IF rangeMs <= 12 * MONTH THEN WEEK
        ELSE MONTH

\* const getAggregationInterval = (startDate, endDate) => ...   (fromDate, toDate)
getAggregationInterval(fromDate, toDate) ==
    LET rangeMs == toDate - fromDate
    IN  IF rangeMs <= 7 * DAY THEN HOUR
        ELSE IF rangeMs <= 3 * MONTH THEN DAY
        ELSE IF rangeMs <= 12 * MONTH THEN WEEK
        ELSE MONTH

-----------------------------------------------------------------------------
(* processChartData *)

\* useState<number | null>(null): the value of an unset fromDate / toDate
Null == -1

\* game.data.filter(point => point.date >= startDate && point.date <= endDate)
FilterRange(data, fromDate, toDate) ==
    SelectSeq(data, LAMBDA point : point.date >= fromDate /\ point.date <= toDate)

\* const aggregated = aggregateData(filteredData, intervalMs)
AggregatedData(game, fromDate, toDate) ==
    aggregateData(FilterRange(game.data, fromDate, toDate),
                  getAggregationInterval(fromDate, toDate))

RECURSIVE AggregatedGames(_, _, _)
\* const aggregatedGames = selectedGames.map(game => ({...game, aggregatedData}))
AggregatedGames(games, fromDate, toDate) ==
    IF games = <<>> THEN <<>>
    ELSE <<[id |-> games[1].id, name |-> games[1].name, data |-> games[1].data,
            aggregatedData |-> AggregatedData(games[1], fromDate, toDate)]>>
         \o AggregatedGames(Tail(games), fromDate, toDate)

\* obj[key] = value on a JavaScript object (a map from property names)
SetProperty(obj, key, value) ==
    [k \in (DOMAIN obj) \cup {key} |-> IF k = key THEN value ELSE obj[k]]

RECURSIVE PutPoint(_, _, _)
\* dateMap is a sequence of entries [key, row] in insertion order.
\* if (!dateMap.has(dateKey)) dateMap.set(dateKey, { date: dateKey });
\* dateMap.get(dateKey)[game.name] = point.count;
PutPoint(dateMap, name, point) ==
    IF dateMap = <<>>
    THEN <<[key |-> point.date,
            row |-> SetProperty([k \in {"date"} |-> point.date], name, point.count)]>>
    ELSE IF dateMap[1].key = point.date
    THEN <<[key |-> point.date,
            row |-> SetProperty(dateMap[1].row, name, point.count)]>> \o Tail(dateMap)
    ELSE <<dateMap[1]>> \o PutPoint(Tail(dateMap), name, point)

RECURSIVE PutPoints(_, _, _)
\* game.aggregatedData.forEach(point => ...)
PutPoints(dateMap, name, points) ==
    IF points = <<>> THEN dateMap
    ELSE PutPoints(PutPoint(dateMap, name, points[1]), name, Tail(points))

RECURSIVE PutGames(_, _)
\* aggregatedGames.forEach(game => game.aggregatedData.forEach(...))
PutGames(dateMap, aggregatedGames) ==
    IF aggregatedGames = <<>> THEN dateMap
    ELSE PutGames(PutPoints(dateMap, aggregatedGames[1].name,
                            aggregatedGames[1].aggregatedData),
                  Tail(aggregatedGames))

RECURSIVE MapValues(_)
\* Array.from(dateMap.values())
MapValues(dateMap) ==
    IF dateMap = <<>> THEN <<>>
    ELSE <<dateMap[1].row>> \o MapValues(Tail(dateMap))

\* the rows of the aggregated games in the order the Map yields them
MergeRows(aggregatedGames) == MapValues(PutGames(<<>>, aggregatedGames))

RECURSIVE InsertRow(_, _)
\* stable insertion: x goes before the first row with a larger date
InsertRow(x, sorted) ==
    IF sorted = <<>> THEN <<x>>
    ELSE IF x["date"] < sorted[1]["date"] THEN <<x>> \o sorted
    ELSE <<sorted[1]>> \o InsertRow(x, Tail(sorted))

RECURSIVE SortRows(_)
\* rows.sort((a, b) => a.date - b.date)
SortRows(rows) ==
    IF rows = <<>> THEN <<>>
    ELSE InsertRow(rows[Len(rows)], SortRows(SubSeq(rows, 1, Len(rows) - 1)))

\* the rows in the order the Map yields them, without the final sort
processChartDataUnsorted(games, fromDate, toDate) ==
    IF Len(games) = 0 \/ fromDate = Null \/ toDate = Null THEN <<>>
    ELSE MergeRows(AggregatedGames(games, fromDate, toDate))

\* const processChartData = () => ...   (reads selectedGames, startDate as fromDate, endDate as toDate)
processChartData(games, fromDate, toDate) ==
    IF Len(games) = 0 \/ fromDate = Null \/ toDate = Null THEN <<>>
    ELSE SortRows(MergeRows(AggregatedGames(games, fromDate, toDate)))

-----------------------------------------------------------------------------
(* Specification SpecAgg: one call of aggregateData on a bounded input *)

\* useState<string | number>(''): the value '' of refAreaLeft / refAreaRight
NoLabel == -2

\* the useState initial values of SteamCompareApp, after the mount effect
\* (selectedGames.length === 0: setStartDate(null); setEndDate(null))
ComponentInit ==
    /\ query = ""
    /\ searchResults = <<>>
    /\ selectedGames = <<>>
    /\ loading = FALSE
    /\ error = <<>>
    /\ usedColors = {}
    /\ startDate = Null
    /\ endDate = Null
    /\ refAreaLeft = NoLabel
    /\ refAreaRight = NoLabel
    /\ isSelecting = FALSE
    /\ inFlight = <<>>

\* the variables of the other specifications, at rest
IvIdle == ivStart = 0 /\ ivEnd = 0 /\ ivResult = 0 /\ ivPc = "idle"
AggIdle == aggData = <<>> /\ aggInterval = 1 /\ aggResult = <<>> /\ aggPc = "idle"

MergeIdle ==
    /\ mGames = <<>> /\ mStart = Null /\ mEnd = Null
    /\ mAggregated = <<>> /\ mRows = <<>> /\ mPc = "idle"

AggInit ==
    /\ IvIdle
    /\ MergeIdle
    /\ ComponentInit
    /\ aggData \in SeqsUpTo(HistoricalPoint(0..MaxDate, Counts), MaxLen)
    /\ aggInterval \in Intervals
    /\ aggResult = <<>>
    /\ aggPc = "call"

AggCall ==
    /\ aggPc = "call"
    /\ aggResult' = aggregateData(aggData, aggInterval)
    /\ aggPc' = "done"
    /\ UNCHANGED <<aggData, aggInterval, ivVars, mVars, appVars>>

AggNext == AggCall

SpecAgg == AggInit /\ [][AggNext]_vars

-----------------------------------------------------------------------------
(* Specification SpecInterval: one call of getAggregationInterval *)

\* range widths around the tier boundaries (in days) of the code and of the
\* documentation
IvWidths ==
    {b * DAY + d : b \in {0, 7, 90, 360, 365, 366}, d \in (-MaxDelta)..MaxDelta}

IvInit ==
    /\ AggIdle
    /\ MergeIdle
    /\ ComponentInit
    /\ ivStart \in {t * DAY : t \in 0..MaxStartDay}
    /\ ivEnd \in {ivStart + w : w \in IvWidths}
    /\ ivResult = 0
    /\ ivPc = "call"

IvCall ==
    /\ ivPc = "call"
    /\ ivResult' = getAggregationInterval(ivStart, ivEnd)
    /\ ivPc' = "done"
    /\ UNCHANGED <<ivStart, ivEnd, aggVars, mVars, appVars>>

IvNext == IvCall

SpecInterval == IvInit /\ [][IvNext]_vars

-----------------------------------------------------------------------------
(* Specification SpecMerge: one evaluation of processChartData *)

\* 30 minutes: the spacing of the points of the series
HalfHour == 30 * 60

\* names of the games (type Game: name is a string; games of distinct ids may
\* carry the same name).  The first selected game is named "A".  No game is
\* named "date", the property every row holds its timestamp under.
Names == {"A", "B"}

\* player counts of the series
MergeCounts == {1, 100}

RECURSIVE SeriesFrom(_, _)
\* the series with a point of count c[t] at half hour t for every t >= from
\* with c[t] # 0
SeriesFrom(c, from) ==
    IF from > MaxTick THEN <<>>
    ELSE (IF c[from] = 0 THEN <<>>
          ELSE <<[date |-> from * HalfHour, count |-> c[from] ] >>)
         \o SeriesFrom(c, from + 1)

\* the fetched series: points at ascending half hours within 0..MaxTick
Series == {SeriesFrom(c, 0) : c \in [0..MaxTick -> MergeCounts \cup {0}]}

\* the active ranges: unset, the whole series, the series without its first
\* point, and a range of more than 7 days (daily buckets)
MergeRanges ==
    { <<Null, Null>>, <<0, MaxTick * HalfHour>>, <<HalfHour, MaxTick * HalfHour>>,
      <<0, 8 * DAY>> }

MergeInit ==
    /\ AggIdle
    /\ IvIdle
    /\ ComponentInit
    /\ \/ mGames = <<>>
       \/ \E d1 \in Series :
              mGames = <<[id |-> 1, name |-> "A", data |-> d1]>>
       \/ \E d1 \in Series, d2 \in Series, name2 \in Names :
              mGames = <<[id |-> 1, name |-> "A", data |-> d1],
                         [id |-> 2, name |-> name2, data |-> d2]>>
    /\ \E r \in MergeRanges : mStart = r[1] /\ mEnd = r[2]
    /\ mAggregated = <<>>
    /\ mRows = <<>>
    /\ mPc = "call"

MergeCall ==
    /\ mPc = "call"
    /\ mAggregated' = IF Len(mGames) = 0 \/ mStart = Null \/ mEnd = Null THEN <<>>
                      ELSE AggregatedGames(mGames, mStart, mEnd)
    /\ mRows' = processChartData(mGames, mStart, mEnd)
    /\ mPc' = "done"
    /\ UNCHANGED <<mGames, mStart, mEnd, aggVars, ivVars, appVars>>

MergeNext == MergeCall

SpecMerge == MergeInit /\ [][MergeNext]_vars

-----------------------------------------------------------------------------
(* The component SteamCompareApp and the history route *)

\* const COLORS = [...]
COLORS == <<"#3b82f6", "#ef4444", "#22c55e", "#f59e0b", "#8b5cf6", "#ec4899">>

\* the games of the store (ids), as the search lists them
GameIds == <<1, 2, 3, 4>>

\* Game.name of the game with this id
GameName(id) == IF id % 2 = 1 THEN "A" ELSE "B"

\* the series steamcharts holds for the game (chart-data.json), as
\* [timestamp, count] pairs: games 1 and 2 overlap, game 3 is disjoint from
\* both, the other games have an empty series
ChartDataJson(id) ==
    IF id = 1 THEN <<<<0, 100>>, <<DAY, 100>>, <<2 * DAY, 100>>>>
    ELSE IF id = 2 THEN <<<<DAY + HalfHour, 100>>, <<2 * DAY, 100>>, <<3 * DAY, 100>>>>
    ELSE IF id = 3 THEN <<<<5 * DAY, 100>>, <<6 * DAY, 100>>>>
    ELSE <<>>

\* what can happen to a request of the history route to steamcharts, and to
\* the browser's request to the route
UpstreamOutcomes == {"ok", "notOk", "notJson", "unreachable"}
FetchOutcomes == {"answered", "networkError"}

RECURSIVE FormatData(_)
\* rawData.map(point => ({ date: point[0], count: point[1] }))
FormatData(rawData) ==
    IF rawData = <<>> THEN <<>>
    ELSE <<[date |-> rawData[1][1], count |-> rawData[1][2]]>> \o FormatData(Tail(rawData))

\* a route that answers a failed upstream request with an empty series
\* instead of an error
HistoryRouteEmptyOnFailure(appid, upstream) ==
    [error |-> "",
     data |-> IF upstream = "ok" THEN FormatData(ChartDataJson(appid)) ELSE <<>>]

\* GET of api/history/route.ts: the JSON body returned; error = "" stands for
\* a body without an error field
HistoryRoute(appid, upstream) ==
    IF upstream = "ok"
    THEN [error |-> "", data |-> FormatData(ChartDataJson(appid))]
    ELSE [error |-> "Failed to fetch history", data |-> <<>>]

\* the message of addGame's catch block
LoadError(name) ==
    <<"Could not load data for ", name, ". It might not be tracked publicly.">>

\* the message of handleSearch's catch block
SearchError == <<"Search failed.">>

RECURSIVE FirstFree(_, _)
\* for (const color of COLORS) if (!usedColors.has(color)) return color;
\* <<>> when the loop ends without returning
FirstFree(colors, used) ==
    IF colors = <<>> THEN <<>>
    ELSE IF colors[1] \notin used THEN <<colors[1]>>
    ELSE FirstFree(Tail(colors), used)

\* getNextAvailableColor, on the usedColors and selectedGames.length of the
\* render whose closure runs it
getNextAvailableColor(used, nSelected) ==
    IF FirstFree(COLORS, used) # <<>> THEN FirstFree(COLORS, used)[1]
    ELSE COLORS[(nSelected % Len(COLORS)) + 1]

\* Date.now(): the times at which the component may read the clock
NowValues == {20000 * DAY, 20001 * DAY}

\* 365 * 24 * 60 * 60 * 1000
YEAR == 365 * 24 * 60 * 60

RECURSIVE MaxStart(_, _)
\* the fold of maxStart over selectedGames; acc is <<>> for -Infinity
MaxStart(games, acc) ==
    IF games = <<>> THEN acc
    ELSE IF Len(games[1].data) > 0
    THEN LET gameStart == games[1].data[1].date
         IN  MaxStart(Tail(games),
                      IF acc = <<>> \/ gameStart > acc[1] THEN <<gameStart>> ELSE acc)
    ELSE MaxStart(Tail(games), acc)

RECURSIVE MinEnd(_, _)
\* the fold of minEnd over selectedGames; acc is <<>> for Infinity
MinEnd(games, acc) ==
    IF games = <<>> THEN acc
    ELSE IF Len(games[1].data) > 0
    THEN LET gameEnd == games[1].data[Len(games[1].data)].date
         IN  MinEnd(Tail(games),
                    IF acc = <<>> \/ gameEnd < acc[1] THEN <<gameEnd>> ELSE acc)
    ELSE MinEnd(Tail(games), acc)

\* the range as the union of the games' ranges instead of the intersection
DefaultRangeUnion(games, now) ==
    LET starts == {games[g].data[1].date : g \in {i \in DOMAIN games : Len(games[i].data) > 0}}
        ends == {games[g].data[Len(games[g].data)].date :
                    g \in {i \in DOMAIN games : Len(games[i].data) > 0}}
    IN  IF starts = {} THEN <<now - YEAR, now>>
        ELSE <<CHOOSE x \in starts : \A y \in starts : x <= y,
               CHOOSE x \in ends : \A y \in ends : x >= y>>

\* the range computed by the effect on selectedGames and by resetZoom for a
\* non-empty selection: <<startDate, endDate>>
DefaultRange(games, now) ==
    LET maxStart == MaxStart(games, <<>>)
        minEnd == MinEnd(games, <<>>)
    IN  IF maxStart # <<>> /\ maxStart[1] <= minEnd[1]
        THEN <<maxStart[1], minEnd[1]>>
        ELSE <<now - YEAR, now>>

\* useEffect(..., [selectedGames]) on the new selection
RangeEffect(games) ==
    IF Len(games) = 0
    THEN startDate' = Null /\ endDate' = Null
    ELSE \E now \in NowValues :
            /\ startDate' = DefaultRange(games, now)[1]
            /\ endDate' = DefaultRange(games, now)[2]

\* a suspended call: kind "search" or "history"; for addGame its argument
\* and the usedColors / selectedGames.length of the render that started it
Suspended(kind, game, used, nSelected) ==
    [kind |-> kind, game |-> game, usedColors |-> used, nSelected |-> nSelected]

\* seq without its i-th element
RemoveAt(seq, i) == SubSeq(seq, 1, i - 1) \o SubSeq(seq, i + 1, Len(seq))

\* selectedGames.find(g => g.id === id) finds a game
IsSelected(id) == \E i \in DOMAIN selectedGames : selectedGames[i].id = id

\* onChange={(e) => setQuery(e.target.value)}
SetQuery(text) ==
    /\ query # text
    /\ query' = text
    /\ UNCHANGED <<searchResults, selectedGames, loading, error, usedColors, startDate,
                   endDate, refAreaLeft, refAreaRight, isSelecting, inFlight>>
    /\ UNCHANGED pureVars

\* handleSearch up to await fetch(...)
HandleSearch ==
    /\ query # ""
    /\ Len(inFlight) < MaxInFlight
    /\ loading' = TRUE
    /\ error' = <<>>
    /\ inFlight' = Append(inFlight, Suspended("search", 0, {}, 0))
    /\ UNCHANGED <<query, searchResults, selectedGames, usedColors, startDate, endDate,
                   refAreaLeft, refAreaRight, isSelecting>>
    /\ UNCHANGED pureVars

\* handleSearch from the answer of fetch on: found is whether the answer
\* carries items
SearchReturns(i, outcome, found) ==
    /\ i \in DOMAIN inFlight
    /\ inFlight[i].kind = "search"
    /\ IF outcome = "answered"
       THEN /\ searchResults' = (IF found THEN GameIds ELSE <<>>)
            /\ error' = error
       ELSE /\ error' = SearchError
            /\ searchResults' = searchResults
    /\ loading' = FALSE
    /\ inFlight' = RemoveAt(inFlight, i)
    /\ UNCHANGED <<query, selectedGames, usedColors, startDate, endDate,
                   refAreaLeft, refAreaRight, isSelecting>>
    /\ UNCHANGED pureVars

\* the number of suspended addGame calls
HistoryCalls == Cardinality({i \in DOMAIN inFlight : inFlight[i].kind = "history"})

\* addGame up to await fetch(...), from a click on a listed game
AddGame(game) ==
    /\ \E i \in DOMAIN searchResults : searchResults[i] = game
    /\ ~IsSelected(game)
    /\ Len(inFlight) < MaxInFlight
    /\ Len(selectedGames) + HistoryCalls < MaxSelected
    /\ loading' = TRUE
    /\ searchResults' = <<>>
    /\ query' = ""
    /\ inFlight' = Append(inFlight,
                          Suspended("history", game, usedColors, Len(selectedGames)))
    /\ UNCHANGED <<selectedGames, error, usedColors, startDate, endDate,
                   refAreaLeft, refAreaRight, isSelecting>>
    /\ UNCHANGED pureVars

\* addGame from the answer of fetch on, when the answer is lost or carries
\* an error: the catch and finally blocks
AddGameFails(i, outcome, upstream) ==
    /\ i \in DOMAIN inFlight
    /\ inFlight[i].kind = "history"
    /\ \/ outcome = "networkError"
       \/ HistoryRoute(inFlight[i].game, upstream).error # ""
    /\ error' = LoadError(GameName(inFlight[i].game))
    /\ loading' = FALSE
    /\ inFlight' = RemoveAt(inFlight, i)
    /\ UNCHANGED <<query, searchResults, selectedGames, usedColors, startDate, endDate,
                   refAreaLeft, refAreaRight, isSelecting>>
    /\ UNCHANGED pureVars

\* addGame from the answer of fetch on, when the answer carries no error:
\* the game is appended, the effect on selectedGames recomputes the range
AddGameSucceeds(i, outcome, upstream) ==
    /\ i \in DOMAIN inFlight
    /\ inFlight[i].kind = "history"
    /\ outcome = "answered"
    /\ HistoryRoute(inFlight[i].game, upstream).error = ""
    /\ LET game == inFlight[i].game
           color == getNextAvailableColor(inFlight[i].usedColors, inFlight[i].nSelected)
           newGame == [id |-> game, name |-> GameName(game), color |-> color,
                       data |-> HistoryRoute(game, upstream).data]
       IN  /\ usedColors' = usedColors \cup {color}
           /\ selectedGames' = Append(selectedGames, newGame)
           /\ RangeEffect(Append(selectedGames, newGame))
    /\ loading' = FALSE
    /\ inFlight' = RemoveAt(inFlight, i)
    /\ UNCHANGED <<query, searchResults, error, refAreaLeft, refAreaRight, isSelecting>>
    /\ UNCHANGED pureVars

\* removeGame(id), from the X button of a selected game; the effect on
\* selectedGames recomputes the range
RemoveGame(id) ==
    /\ IsSelected(id)
    /\ LET gameToRemove ==
               selectedGames[CHOOSE i \in DOMAIN selectedGames :
                                 /\ selectedGames[i].id = id
                                 /\ \A j \in 1..(i - 1) : selectedGames[j].id # id]
           kept == SelectSeq(selectedGames, LAMBDA g : g.id # id)
       IN  /\ usedColors' = usedColors \ {gameToRemove.color}
           /\ selectedGames' = kept
           /\ RangeEffect(kept)
    /\ UNCHANGED <<query, searchResults, loading, error, refAreaLeft, refAreaRight,
                   isSelecting, inFlight>>
    /\ UNCHANGED pureVars

\* resetZoom, from the Reset Zoom button (rendered for a non-empty selection)
ResetZoom ==
    /\ Len(selectedGames) # 0
    /\ \E now \in NowValues :
          /\ startDate' = DefaultRange(selectedGames, now)[1]
          /\ endDate' = DefaultRange(selectedGames, now)[2]
    /\ UNCHANGED <<query, searchResults, selectedGames, loading, error, usedColors,
                   refAreaLeft, refAreaRight, isSelecting, inFlight>>
    /\ UNCHANGED pureVars

\* const chartData = processChartData()
chartData == processChartData(selectedGames, startDate, endDate)

\* the values e.activeLabel can take over the chart: the dates of its rows
ChartLabels == {chartData[j]["date"] : j \in DOMAIN chartData}

\* handleMouseDown(e) with e.activeLabel = label, one of ChartLabels (the
\* chart is rendered for a non-empty selection; a label 0 is falsy)
HandleMouseDown(label) ==
    /\ Len(selectedGames) > 0
    /\ label # 0
    /\ refAreaLeft' = label
    /\ isSelecting' = TRUE
    /\ UNCHANGED <<query, searchResults, selectedGames, loading, error, usedColors,
                   startDate, endDate, refAreaRight, inFlight>>
    /\ UNCHANGED pureVars

\* handleMouseMove(e) with e.activeLabel = label
HandleMouseMove(label) ==
    /\ Len(selectedGames) > 0
    /\ isSelecting
    /\ label # 0
    /\ refAreaRight # label
    /\ refAreaRight' = label
    /\ UNCHANGED <<query, searchResults, selectedGames, loading, error, usedColors,
                   startDate, endDate, refAreaLeft, isSelecting, inFlight>>
    /\ UNCHANGED pureVars

\* handleMouseUp
HandleMouseUp ==
    /\ Len(selectedGames) > 0
    /\ isSelecting
    /\ isSelecting' = FALSE
    /\ refAreaLeft' = NoLabel
    /\ refAreaRight' = NoLabel
    /\ IF refAreaLeft = refAreaRight \/ refAreaRight = NoLabel
       THEN UNCHANGED <<startDate, endDate>>
       ELSE LET left == IF refAreaLeft > refAreaRight THEN refAreaRight ELSE refAreaLeft
                right == IF refAreaLeft > refAreaRight THEN refAreaLeft ELSE refAreaRight
            IN  startDate' = left /\ endDate' = right
    /\ UNCHANGED <<query, searchResults, selectedGames, loading, error, usedColors,
                   inFlight>>
    /\ UNCHANGED pureVars

\* the values new Date(e.target.value).getTime() of the date fields: UTC
\* midnights (NaN, for an emptied field, changes nothing)
DateFieldValues == {DAY, 3 * DAY}

\* handleStartDateChange (the field is rendered for a non-empty selection)
HandleStartDateChange(newStart) ==
    /\ Len(selectedGames) > 0
    /\ startDate # newStart
    /\ startDate' = newStart
    /\ UNCHANGED <<query, searchResults, selectedGames, loading, error, usedColors,
                   endDate, refAreaLeft, refAreaRight, isSelecting, inFlight>>
    /\ UNCHANGED pureVars

\* handleEndDateChange
HandleEndDateChange(newEnd) ==
    /\ Len(selectedGames) > 0
    /\ endDate # newEnd
    /\ endDate' = newEnd
    /\ UNCHANGED <<query, searchResults, selectedGames, loading, error, usedColors,
                   startDate, refAreaLeft, refAreaRight, isSelecting, inFlight>>
    /\ UNCHANGED pureVars

-----------------------------------------------------------------------------
(* Specifications of the component.  The search and fetch state (query,    *)
(* searchResults, loading, error, inFlight, selectedGames, usedColors) never  *)
(* reads the range state (startDate, endDate, refAreaLeft, refAreaRight,      *)
(* isSelecting), so it is explored under every interleaving of requests and   *)
(* answers in SpecFetch, and the range state under every gesture in           *)
(* SpecRange, where the user starts a request only when none is pending.      *)

Init ==
    /\ AggIdle
    /\ IvIdle
    /\ MergeIdle
    /\ ComponentInit

\* the search box, the dropdown, the X buttons, and the answers of fetch
FetchNext ==
    \/ \E text \in {"", "game"} : SetQuery(text)
    \/ HandleSearch
    \/ \E i \in DOMAIN inFlight, o \in FetchOutcomes, found \in BOOLEAN :
           SearchReturns(i, o, found)
    \/ \E i \in DOMAIN searchResults : AddGame(searchResults[i])
    \/ \E i \in DOMAIN inFlight, o \in FetchOutcomes, u \in UpstreamOutcomes :
           AddGameFails(i, o, u)
    \/ \E i \in DOMAIN inFlight, o \in FetchOutcomes, u \in UpstreamOutcomes :
           AddGameSucceeds(i, o, u)
    \/ \E i \in DOMAIN selectedGames : RemoveGame(selectedGames[i].id)

SpecFetch == Init /\ [][FetchNext]_vars

\* no request is pending
Idle == inFlight = <<>>

\* the chart, the date fields and Reset Zoom, over selections built by one
\* request at a time
RangeNext ==
    \/ Idle /\ SetQuery("game")
    \/ Idle /\ HandleSearch
    \/ \E i \in DOMAIN inFlight : SearchReturns(i, "answered", TRUE)
    \/ \E i \in DOMAIN searchResults : Idle /\ AddGame(searchResults[i])
    \/ \E i \in DOMAIN inFlight : AddGameSucceeds(i, "answered", "ok")
    \/ \E i \in DOMAIN selectedGames : RemoveGame(selectedGames[i].id)
    \/ ResetZoom
    \/ \E label \in ChartLabels : HandleMouseDown(label)
    \/ isSelecting /\ \E label \in ChartLabels : HandleMouseMove(label)
    \/ HandleMouseUp
    \/ \E d \in DateFieldValues : HandleStartDateChange(d)
    \/ \E d \in DateFieldValues : HandleEndDateChange(d)

SpecRange == Init /\ [][RangeNext]_vars

-----------------------------------------------------------------------------
(* Properties of aggregateData, stated on the finished call *)

\* number of positions of seq holding x
Occurrences(seq, x) == Cardinality({i \in DOMAIN seq : seq[i] = x})

\* the bucket keys of the call's input
AggKeys == {BucketKey(aggData[i].date, aggInterval) : i \in DOMAIN aggData}

\* the input points of bucket k, and the returned points lying in bucket k
AggBucketIn(k) == BucketPoints(aggData, aggInterval, k)
AggBucketOut(k) == BucketPoints(aggResult, aggInterval, k)

RECURSIVE SumSquares(_)
SumSquares(points) ==
    IF points = <<>> THEN 0
    ELSE points[1].count * points[1].count + SumSquares(Tail(points))

\* value > mean and value - mean > max(1.5 * stdDev, 0.5 * mean), with the
\* population variance written as (N * sum of squares - S^2) / N^2
\* (N = number of points, S = their sum, V = N * sum of squares - S^2)
SpecOutlierBy(count, N, S, V) ==
    LET d == N * count - S
    IN  d > 0 /\ 4 * d * d > 9 * V /\ 2 * d > S

SpecOutlier(p, points) ==
    LET N == Len(points)
        S == SumCounts(points)
    IN  SpecOutlierBy(p.count, N, S, N * SumSquares(points) - S * S)

SpecOutliers(points) ==
    LET N == Len(points)
        S == SumCounts(points)
        V == N * SumSquares(points) - S * S
    IN  SelectSeq(points, LAMBDA p : SpecOutlierBy(p.count, N, S, V))

SpecNormal(points) ==
    LET N == Len(points)
        S == SumCounts(points)
        V == N * SumSquares(points) - S * S
    IN  SelectSeq(points, LAMBDA p : ~SpecOutlierBy(p.count, N, S, V))

\* r = round(sum / n): r - 1/2 <= sum/n < r + 1/2
IsRounded(r, sum, n) == (2 * r - 1) * n <= 2 * sum /\ 2 * sum < (2 * r + 1) * n

\* the counts of points, in order
CountsOf(points) == [i \in DOMAIN points |-> points[i].count]

\* C1: the sequence returned by aggregateData is non-decreasing by date, for
\* every input order (duplicates included) and every positive interval.
C1_AggregateSorted ==
    aggPc = "done" =>
        \A i \in 1..(Len(aggResult) - 1) : aggResult[i].date <= aggResult[i + 1].date

\* C1 witness: a call on an input whose dates descend across two buckets
\* has returned at least two points.
C1_Witness ==
    /\ aggPc = "done"
    /\ Len(aggResult) >= 2
    /\ \E i \in 1..(Len(aggData) - 1) :
           BucketKey(aggData[i].date, aggInterval)
               > BucketKey(aggData[i + 1].date, aggInterval)

\* C2: in a bucket of N > 1 points the points returned besides the
\* representative are exactly the points with value > mean and
\* value - mean > max(1.5 * stdDev, 0.5 * mean), each with its own date and
\* count and as often as it occurs in the input; no returned point off the
\* bucket boundary has a value at or below the bucket mean; and the counts
\* 100,100,100,500 give the representative 100 plus the point 500.
C2_OutlierPreserved ==
    aggPc = "done" =>
        \A k \in AggKeys :
            LET pts == AggBucketIn(k)
                out == AggBucketOut(k)
            IN  Len(pts) > 1 =>
                  /\ Len(out) = 1 + Len(SpecOutliers(pts))
                  /\ \A i \in DOMAIN pts :
                        Occurrences(out, pts[i]) >=
                            IF SpecOutlier(pts[i], pts) THEN Occurrences(pts, pts[i]) ELSE 0
                  /\ \A i \in DOMAIN pts :
                        (~SpecOutlier(pts[i], pts) /\ Occurrences(out, pts[i]) > 0)
                            => /\ pts[i].date = k
                               /\ Occurrences(out, pts[i]) = 1
                  /\ \A j \in DOMAIN out :
                        out[j].date # k => Len(pts) * out[j].count > SumCounts(pts)
                  /\ CountsOf(pts) = <<100, 100, 100, 500>> =>
                        /\ Len(out) = 2
                        /\ Occurrences(out, [date |-> k, count |-> 100]) = 1
                        /\ Occurrences(out, pts[4]) = 1

\* C2 witness: the call on counts 100,100,100,500 in one bucket, the 500
\* off the bucket boundary, has returned it at its own date.
C2_Witness ==
    /\ aggPc = "done"
    /\ CountsOf(aggData) = <<100, 100, 100, 500>>
    /\ Cardinality(AggKeys) = 1
    /\ aggData[4].date # BucketKey(aggData[4].date, aggInterval)
    /\ Len(aggResult) = 2
    /\ aggResult[2] = aggData[4]

\* C3: every non-empty bucket contributes exactly one representative point,
\* dated at the bucket key floor(date / intervalMs) * intervalMs; its value is
\* the point's value for a singleton bucket and round(mean of the non-outlier
\* values) for a bucket of N > 1 points, which is round(mean of all values)
\* when the bucket has no outlier.  Everything else returned for the bucket
\* is an outlier.
C3_OneRepresentative ==
    aggPc = "done" =>
        \A k \in {(aggData[i].date \div aggInterval) * aggInterval : i \in DOMAIN aggData} :
            LET pts == AggBucketIn(k)
                out == AggBucketOut(k)
                outl == SpecOutliers(pts)
                norm == SpecNormal(pts)
            IN  \E j \in DOMAIN out :
                    LET rep == out[j]
                    IN  /\ rep.date = k
                        /\ IF Len(pts) = 1
                           THEN rep.count = pts[1].count
                           ELSE /\ Len(norm) > 0
                                /\ IsRounded(rep.count, SumCounts(norm), Len(norm))
                                /\ outl = <<>> =>
                                      IsRounded(rep.count, SumCounts(pts), Len(pts))
                        /\ Occurrences(out, rep) = 1 + Occurrences(outl, rep)
                        /\ Len(out) = 1 + Len(outl)
                        /\ \A o \in DOMAIN outl :
                              Occurrences(out, outl[o]) >= Occurrences(outl, outl[o])

\* C3 witness: a finished call with a singleton bucket and a bucket of
\* several points, without outlier, whose mean is not an integer and rounds up.
C3_Witness ==
    /\ aggPc = "done"
    /\ \E k \in AggKeys : Len(AggBucketIn(k)) = 1
    /\ \E k \in AggKeys :
          LET pts == AggBucketIn(k)
          IN  /\ Len(pts) > 1
              /\ SpecOutliers(pts) = <<>>
              /\ 2 * (SumCounts(pts) % Len(pts)) >= Len(pts)
              /\ [date |-> k, count |-> (SumCounts(pts) \div Len(pts)) + 1]
                     \in {aggResult[j] : j \in DOMAIN aggResult}

\* the bucket's counts are 500,500,500,100 in some order
IsDipBucket(pts) ==
    /\ Len(pts) = 4
    /\ Occurrences(CountsOf(pts), 500) = 3
    /\ Occurrences(CountsOf(pts), 100) = 1

\* C4 as stated: a bucket holding the values 500,500,500,100 returns a single
\* point, the representative at the bucket key, with value 300.
C4_DipNotSplit300 ==
    aggPc = "done" =>
        \A k \in AggKeys :
            IsDipBucket(AggBucketIn(k))
                => AggBucketOut(k) = <<[date |-> k, count |-> 300]>>

\* C4 amended: a bucket holding the values 500,500,500,100 (in any order)
\* returns a single point, the representative at the bucket key, whose value
\* is round(mean of all four) = round(1600 / 4) = 400; the dip to 100 is not
\* split out.
C4_DipNotSplit ==
    aggPc = "done" =>
        \A k \in AggKeys :
            IsDipBucket(AggBucketIn(k))
                => AggBucketOut(k) = <<[date |-> k, count |-> 400]>>

\* C4 witness: the call on 500,500,500,100 in one bucket, the 100 off the
\* bucket boundary, has returned a single point.
C4_Witness ==
    /\ aggPc = "done"
    /\ CountsOf(aggData) = <<500, 500, 500, 100>>
    /\ Cardinality(AggKeys) = 1
    /\ aggData[4].date # BucketKey(aggData[4].date, aggInterval)
    /\ Len(aggResult) = 1

-----------------------------------------------------------------------------
(* Properties of getAggregationInterval (1 unit = 1000 ms) *)

\* C7 as stated: 1 hour up to 7 days, 1 day up to 90 days, 7 days up to 365
\* days, 30 days beyond.
C7_IntervalTable365 ==
    ivPc = "done" =>
        LET w == ivEnd - ivStart
        IN  ivResult = IF w <= 7 * 86400 THEN 3600
                       ELSE IF w <= 90 * 86400 THEN 86400
                       ELSE IF w <= 365 * 86400 THEN 7 * 86400
                       ELSE 30 * 86400

\* C7 amended: getAggregationInterval(start, end) is 1 hour when the width
\* end - start is at most 7 days, 1 day when it is above 7 and at most 90
\* days, 7 days when it is above 90 and at most 360 days (12 months of 30
\* days), and 30 days above 360 days; width 7*DAY gives 1 hour, 7*DAY+1 gives
\* 1 day and 366*DAY gives 30 days.
C7_IntervalTable ==
    ivPc = "done" =>
        LET w == ivEnd - ivStart
        IN  /\ ivResult = IF w <= 7 * 86400 THEN 3600
                          ELSE IF w <= 90 * 86400 THEN 86400
                          ELSE IF w <= 360 * 86400 THEN 7 * 86400
                          ELSE 30 * 86400
            /\ w = 7 * 86400 => ivResult = 3600
            /\ w = 7 * 86400 + 1 => ivResult = 86400
            /\ w = 366 * 86400 => ivResult = 30 * 86400

\* C7 witness: a finished call on a width of exactly 7 days.
C7_Witness ==
    /\ ivPc = "done"
    /\ ivStart > 0
    /\ ivEnd - ivStart = 7 * 86400
    /\ ivResult = 3600

-----------------------------------------------------------------------------
(* Properties of processChartData, stated on the finished evaluation *)

\* the aggregated series of the i-th selected game
MergeSeries(i) == mAggregated[i].aggregatedData

\* the timestamps of the aggregated series of the i-th game, and of any game
MergeDatesOf(i) == {MergeSeries(i)[j].date : j \in DOMAIN MergeSeries(i)}
MergeDates == UNION {MergeDatesOf(i) : i \in DOMAIN mAggregated}

\* the values of the i-th game's aggregated points at timestamp t
MergeValuesAt(i, t) ==
    {MergeSeries(i)[j].count : j \in {n \in DOMAIN MergeSeries(i) : MergeSeries(i)[n].date = t}}

C6_RowHoldsOwnPoints ==
    (mPc = "done" /\ mStart # Null) =>
        \A j \in DOMAIN mRows : \A i \in DOMAIN mGames :
            LET row == mRows[j]
                name == mGames[i].name
            IN  /\ name \in DOMAIN row <=> row["date"] \in MergeDatesOf(i)
                /\ name \in DOMAIN row => row[name] \in MergeValuesAt(i, row["date"])


-----------------------------------------------------------------------------
(* Properties of the component *)

\* C8: in every reachable state where the active range is set, startDate <=
\* endDate (an edit of a date field or a drag that would make start > end is
\* swapped)
C8_RangeOrdered ==
    (startDate # Null /\ endDate # Null) => startDate <= endDate

\* the games of the selection that have a series
C9_WithData == {g \in DOMAIN selectedGames : Len(selectedGames[g].data) > 0}

\* the first and the last timestamps of those series
C9_Starts == {selectedGames[g].data[1].date : g \in C9_WithData}
C9_Ends == {selectedGames[g].data[Len(selectedGames[g].data)].date : g \in C9_WithData}

\* the active range is the default of the current selection: the
\* intersection of the series' ranges when there is one, else the last 365
\* days; no range for an empty selection
C9_RangeIsDefault ==
    IF selectedGames = <<>> THEN startDate = Null /\ endDate = Null
    ELSE IF /\ C9_WithData # {}
            /\ \E s \in C9_Starts, e \in C9_Ends :
                  /\ \A x \in C9_Starts : x <= s
                  /\ \A y \in C9_Ends : e <= y
                  /\ s <= e
         THEN /\ startDate \in C9_Starts /\ \A x \in C9_Starts : x <= startDate
              /\ endDate \in C9_Ends /\ \A y \in C9_Ends : endDate <= y
         ELSE /\ endDate \in NowValues
              /\ startDate = endDate - 365 * 24 * 60 * 60

\* C9: after every change of the selected games (add or remove) and after
\* every resetZoom, the active range is the default computed from the current
\* selection, whatever drag or date-field edit came before
C9_RangeRecomputed ==
    [][(selectedGames' # selectedGames \/ ResetZoom) => C9_RangeIsDefault']_vars

\* two games with disjoint series are selected and the range is the last 365
\* days
C9_Witness ==
    /\ Len(selectedGames) = 2
    /\ selectedGames[1].data # <<>> /\ selectedGames[2].data # <<>>
    /\ \/ selectedGames[1].data[Len(selectedGames[1].data)].date < selectedGames[2].data[1].date
       \/ selectedGames[2].data[Len(selectedGames[2].data)].date < selectedGames[1].data[1].date
    /\ endDate \in NowValues
    /\ startDate = endDate - 365 * 24 * 60 * 60

\* the history fetch fails: the browser's request is lost, or steamcharts
\* does not answer the route with a parsable success response
C10_FetchFails(outcome, upstream) == outcome = "networkError" \/ upstream # "ok"

\* C10: when the history fetch started by addGame fails, the game is not
\* added: neither the start of addGame nor its continuation changes
\* selectedGames or usedColors, error is set to a message containing the
\* game's name, and loading returns to false
C10_FailedFetchAddsNothing ==
    [][/\ \A g \in DOMAIN searchResults :
              AddGame(searchResults[g]) =>
                  selectedGames' = selectedGames /\ usedColors' = usedColors
       /\ \A i \in DOMAIN inFlight, o \in FetchOutcomes, u \in UpstreamOutcomes :
              (/\ AddGameFails(i, o, u) \/ AddGameSucceeds(i, o, u)
               /\ C10_FetchFails(o, u)) =>
                  /\ selectedGames' = selectedGames
                  /\ usedColors' = usedColors
                  /\ \E k \in DOMAIN error' : error'[k] = GameName(inFlight[i].game)
                  /\ loading' = FALSE]_vars

\* game 1 is selected, the fetch for a game named "B" has failed and nothing
\* is pending
C10_Witness ==
    /\ Len(selectedGames) = 1
    /\ selectedGames[1].id = 1
    /\ usedColors = {selectedGames[1].color}
    /\ \E k \in DOMAIN error : error[k] = "B"
    /\ loading = FALSE
    /\ inFlight = <<>>

\* C11: a history response with an empty series and no error field is treated
\* as a fetch failure, so no selected game ever has an empty series
C11_NoEmptySeries ==
    \A g \in DOMAIN selectedGames : selectedGames[g].data # <<>>

\* every point of the input lies on a bucket boundary and no two points share
\* a bucket
C12_OnBoundarySingletons ==
    /\ \A i \in DOMAIN aggData : aggData[i].date % aggInterval = 0
    /\ \A i, j \in DOMAIN aggData : i # j => aggData[i].date # aggData[j].date

\* C12: if every point of P lies on a bucket boundary and every bucket holds
\* a single point, aggregating the aggregate again changes nothing:
\* aggregateData(aggregateData(P, w), w) = aggregateData(P, w)
C12_Idempotent ==
    (aggPc = "done" /\ C12_OnBoundarySingletons) =>
        aggregateData(aggResult, aggInterval) = aggResult

\* a finished call on two boundary points given in descending order
C12_Witness ==
    /\ aggPc = "done"
    /\ C12_OnBoundarySingletons
    /\ Len(aggData) = 2
    /\ aggData[1].date > aggData[2].date
    /\ Len(aggResult) = 2

\* C13: under every interleaving of handleSearch, addGame and their answers,
\* loading is true whenever an addGame history fetch is outstanding, and at
\* most one addGame history fetch is in flight
C13_BusyWhileFetching ==
    /\ HistoryCalls > 0 => loading = TRUE
    /\ HistoryCalls <= 1

\* C14: after any sequence and interleaving of addGame calls, fetch answers
\* and removeGame calls, selectedGames never holds two entries with the same
\* game id
C14_NoDuplicateIds ==
    \A i, j \in DOMAIN selectedGames :
        selectedGames[i].id = selectedGames[j].id => i = j

\* C15: in every bucket of N > 1 points a point of minimum value is not above
\* the mean, so it is classified as normal: normalPoints is never empty (the
\* median branch is never taken), and every outlier returned for the bucket
\* has a value strictly greater than the bucket's representative
C15_SomePointNormal ==
    aggPc = "done" =>
        \A k \in AggKeys :
            LET pts == AggBucketIn(k)
                out == AggBucketOut(k)
                N == Len(pts)
                S == SumCounts(pts)
            IN  N > 1 =>
                  /\ \A i \in DOMAIN pts :
                        (\A j \in DOMAIN pts : pts[i].count <= pts[j].count) =>
                            /\ N * pts[i].count <= S
                            /\ ~IsUpwardOutlier(pts[i].count, S, N, SumSqDev(pts, S, N))
                            /\ ~SpecOutlier(pts[i], pts)
                  /\ Len(SpecNormal(pts)) > 0
                  /\ out[1].date = k
                  /\ \A j \in 2..Len(out) : out[j].count > out[1].count

\* a finished call on one bucket of several points that returned the
\* representative and at least one outlier
C15_Witness ==
    /\ aggPc = "done"
    /\ Cardinality(AggKeys) = 1
    /\ Len(aggData) > 2
    /\ Len(aggResult) >= 2
    /\ aggResult[1].count < aggResult[2].count
    /\ \E i \in DOMAIN aggData : aggData[i].count = 1

\* C16: every row returned by processChartData for an active range
\* [startDate, endDate] has a timestamp t with startDate <= t <= endDate
C16_RowsInsideRange ==
    (mPc = "done" /\ mStart # Null /\ mEnd # Null) =>
        \A j \in DOMAIN mRows : mStart <= mRows[j]["date"] /\ mRows[j]["date"] <= mEnd

\* C17: whenever at most 6 games (the size of COLORS) are selected, no two
\* selected games have the same colour, and usedColors is exactly the set of
\* the colours of the selected games
C17_ColoursDistinct ==
    Len(selectedGames) <= Len(COLORS) =>
        /\ \A i, j \in DOMAIN selectedGames :
              selectedGames[i].color = selectedGames[j].color => i = j
        /\ usedColors = {selectedGames[i].color : i \in DOMAIN selectedGames}

=============================================================================
